---- MODULE Spec2Model ----
(***************************************************************************)
(* A model of internal/opengl/context_desktop.go: the desktop OpenGL       *)
(* context of ebiten.  The Context caches the device's bindings (texture,  *)
(* framebuffer, viewport, blend function) to skip redundant device calls,  *)
(* resolves uniform/attribute locations through a location cache, and      *)
(* creates and deletes device objects.                                     *)
(*                                                                         *)
(* The state is the records c (the Context's fields), gl (the OpenGL 2.1   *)
(* device: its objects and bindings), obs (what the last operation did:    *)
(* its name, arguments, result, and the log of device calls and cache      *)
(* writes it made) and hist (facts about the run so far that the           *)
(* properties speak of).  Every method of the source is an operator from   *)
(* state to state, written statement by statement; an action applies one   *)
(* method to the current state.  inflight holds, for each concurrent       *)
(* caller, how far its NewTexture call has got; it is used where the       *)
(* three submissions of NewTexture are taken as separate steps.            *)
(***************************************************************************)
EXTENDS Integers, Sequences, FiniteSets, TLC

VARIABLES c, gl, obs, hist, inflight

vars == <<c, gl, obs, hist, inflight>>

(* ------------------------------ bounds --------------------------------- *)
MaxTexture == 1
MaxFramebuffer == 1
MaxProgram == 1
MaxShader == 1
MaxBuffer == 1
MaxDim == 2
MaxInit == 2
MaxResolve == 2
MaxCalls == 3

(* ----------------------------- constants ------------------------------- *)
\* Handles are uint32.  TLC's integers are 32-bit signed, so the all-ones
\* handle (1 << 32) - 1 is written as its two's-complement reading, -1; no
\* handle the device hands out is negative.
invalidTexture == 0
invalidFramebuffer == -1

\* gl.ZERO .. gl.ONE_MINUS_DST_ALPHA, as init() stores them
zero == 0
one == 1
srcAlpha == 770
oneMinusSrcAlpha == 771
dstAlpha == 772
oneMinusDstAlpha == 773

\* gl.FRAMEBUFFER_COMPLETE, gl.FRAMEBUFFER_INCOMPLETE_ATTACHMENT,
\* gl.NO_ERROR, gl.INVALID_OPERATION
FRAMEBUFFER_COMPLETE == 36053
FRAMEBUFFER_INCOMPLETE_ATTACHMENT == 36054
NO_ERROR == 0
INVALID_OPERATION == 1282

\* graphics.CompositeMode: SourceOver is the zero value, Unknown the last
CompositeModeSourceOver == 0
CompositeModeClear == 1
CompositeModeCopy == 2
CompositeModeLighter == 12
CompositeModeUnknown == 13

\* the composite modes a caller passes (a subset of the thirteen)
Modes == {CompositeModeSourceOver, CompositeModeCopy, CompositeModeLighter}

\* graphics.CompositeMode.Operations followed by convertOperation: the
\* (source, destination) blend factors of a mode, as device constants
Operations(mode) ==
    CASE mode = CompositeModeSourceOver -> <<one, oneMinusSrcAlpha>>
      [] mode = CompositeModeClear -> <<zero, zero>>
      [] mode = CompositeModeCopy -> <<one, zero>>
      [] mode = CompositeModeLighter -> <<one, one>>

TextureHandles == 0..MaxTexture
FramebufferHandles == 0..MaxFramebuffer
ProgramHandles == 1..MaxProgram
ShaderHandles == 1..MaxShader
BufferHandles == 1..MaxBuffer
Dims == 1..MaxDim

\* shader parameter names the engine uses
Names == {"a", "b"}
\* What a program object looks like to the device: 0 is no program, 1 and 2
\* are two linked programs that place the names differently, 3 is a program
\* whose link failed.
NoProgram == 0
Layouts == {1, 2}
Unlinked == 3
\* a location cache slot that holds nothing
NoLocation == -2

\* glGetUniformLocation / glGetAttribLocation of a linked program: the slot
\* the linker gave the name, -1 when the program has no such active name
LocationOf(layout, name) ==
    CASE layout = 1 /\ name = "a" -> 0
      [] layout = 1 /\ name = "b" -> 1
      [] layout = 2 /\ name = "a" -> 1
      [] OTHER -> -1

nil == ""

(* ------------------------- the observation log ------------------------- *)
\* One entry per device call ("gl") and per write of a Context field
\* ("set"), in program order; u tells whether it happened inside a unit of
\* work run by runOnContextThread.
Ev(k, f, a, u) == [k |-> k, f |-> f, a |-> a, u |-> u]

Log(s, k, f, a) == [s EXCEPT !.obs.log = Append(@, Ev(k, f, a, s.obs.unit))]

\* a write of a scalar Context field
SetField(s, f, v) == Log([s EXCEPT !.c[f] = v], "set", f, <<v>>)

GlCalls(log, f) == SelectSeq(log, LAMBDA e : e.k = "gl" /\ e.f = f)

NumCalls(f) == Len(GlCalls(obs.log, f))

\* the position of the first entry of the log that is (k, f), 0 when none
FirstIndex(log, k, f) ==
    LET I == {i \in 1..Len(log) : log[i].k = k /\ log[i].f = f}
    IN IF I = {} THEN 0 ELSE CHOOSE i \in I : \A j \in I : i <= j

\* an operation starts: its name and arguments, an empty log, no result yet
Begin(s, op, args) ==
    [s EXCEPT !.obs.op = op, !.obs.args = args, !.obs.ret = 0,
              !.obs.err = nil, !.obs.code = 0, !.obs.log = <<>>,
              !.obs.unit = FALSE]

Return(s, ret, err) == [s EXCEPT !.obs.ret = ret, !.obs.err = err]

\* an error whose message embeds a device code
ReturnCode(s, ret, err, code) ==
    [s EXCEPT !.obs.ret = ret, !.obs.err = err, !.obs.code = code]

S == [c |-> c, gl |-> gl, obs |-> obs]

(* ------------------------------ the device ----------------------------- *)
\* OpenGL 2.1 with EXT_framebuffer_object.  A name returned by glGen* is
\* reserved; it becomes an object when first bound, and binding an unused
\* non-zero name creates the object too.  Deleting an object that is bound
\* rebinds the default object 0.
glInit(s, ok) ==
    Log([s EXCEPT !.gl.inits = IF ok THEN @ + 1 ELSE @], "gl", "Init",
        <<IF ok THEN 1 ELSE 0>>)

glEnableBlend(s) == Log([s EXCEPT !.gl.blend = TRUE], "gl", "Enable", <<>>)

glBlendFunc(s, sf, df) ==
    Log([s EXCEPT !.gl.blendFunc = <<sf, df>>], "gl", "BlendFunc", <<sf, df>>)

glGetFramebufferBinding(s) == Log(s, "gl", "GetIntegerv", <<s.gl.boundFramebuffer>>)

glGenTextures(s, t) ==
    Log([s EXCEPT !.gl.texNames = IF t = 0 THEN @ ELSE @ \cup {t}],
        "gl", "GenTextures", <<t>>)

glPixelStorei(s) == Log(s, "gl", "PixelStorei", <<>>)

glBindTexture(s, t) ==
    Log([s EXCEPT !.gl.boundTexture = t,
                  !.gl.texNames = IF t = 0 THEN @ ELSE @ \cup {t},
                  !.gl.textures = IF t = 0 THEN @ ELSE @ \cup {t}],
        "gl", "BindTexture", <<t>>)

\* the sampling parameters and the storage go to the texture that is bound
glTexParameteri(s) == Log(s, "gl", "TexParameteri", <<s.gl.boundTexture>>)

glTexImage2D(s, width, height) ==
    Log(s, "gl", "TexImage2D", <<s.gl.boundTexture, width, height>>)

glIsTexture(s, t) == t \in s.gl.textures

glDeleteTextures(s, t) ==
    Log([s EXCEPT !.gl.textures = @ \ {t},
                  !.gl.texNames = @ \ {t},
                  !.gl.boundTexture = IF @ = t THEN 0 ELSE @],
        "gl", "DeleteTextures", <<t>>)

glGenFramebuffers(s, f) ==
    Log([s EXCEPT !.gl.fbNames = IF f = 0 THEN @ ELSE @ \cup {f}],
        "gl", "GenFramebuffersEXT", <<f>>)

glBindFramebuffer(s, f) ==
    Log([s EXCEPT !.gl.boundFramebuffer = f,
                  !.gl.fbNames = IF f = 0 THEN @ ELSE @ \cup {f},
                  !.gl.framebuffers = IF f = 0 THEN @ ELSE @ \cup {f}],
        "gl", "BindFramebufferEXT", <<f>>)

\* the attachment goes to the framebuffer that is bound
glFramebufferTexture2D(s, texture) ==
    Log(s, "gl", "FramebufferTexture2DEXT", <<s.gl.boundFramebuffer, texture>>)

glCheckFramebufferStatus(s, status) ==
    Log(s, "gl", "CheckFramebufferStatusEXT", <<status>>)

glGetError(s, e) == Log(s, "gl", "GetError", <<e>>)

\* nothing in the Context reads the device's viewport back: the call is
\* logged, the rectangle is not kept
glViewport(s, width, height) == Log(s, "gl", "Viewport", <<width, height>>)

glIsFramebuffer(s, f) == f \in s.gl.framebuffers

glDeleteFramebuffers(s, f) ==
    Log([s EXCEPT !.gl.framebuffers = @ \ {f},
                  !.gl.fbNames = @ \ {f},
                  !.gl.boundFramebuffer = IF @ = f THEN 0 ELSE @],
        "gl", "DeleteFramebuffersEXT", <<f>>)

\* Shaders, programs and buffers: glCreateShader and glCreateProgram make
\* the object at once.  Shader and program names are kept apart here.
glCreateShader(s, sh) ==
    Log([s EXCEPT !.gl.shaders = IF sh = 0 THEN @ ELSE @ \cup {sh}],
        "gl", "CreateShader", <<sh>>)

\* deleting 0 is ignored; deleting a name that is no shader raises a device
\* error and deletes nothing
glDeleteShader(s, sh) ==
    Log([s EXCEPT !.gl.shaders = @ \ {sh}], "gl", "DeleteShader", <<sh>>)

glCreateProgram(s, p) ==
    Log(IF p = 0 THEN s ELSE [s EXCEPT !.gl.programs[p] = Unlinked],
        "gl", "CreateProgram", <<p>>)

glAttachShader(s, p, sh) == Log(s, "gl", "AttachShader", <<p, sh>>)

glLinkProgram(s, p, layout) ==
    Log([s EXCEPT !.gl.programs[p] = layout], "gl", "LinkProgram", <<p>>)

glIsProgram(s, p) == p \in ProgramHandles /\ s.gl.programs[p] # NoProgram

glDeleteProgram(s, p) ==
    Log([s EXCEPT !.gl.programs[p] = NoProgram], "gl", "DeleteProgram", <<p>>)

\* -1 for a name the program does not have, and for a handle that is no
\* linked program
glLocation(s, p, name) ==
    IF glIsProgram(s, p) THEN LocationOf(s.gl.programs[p], name) ELSE -1

glGenBuffers(s, b) ==
    Log([s EXCEPT !.gl.bufNames = IF b = 0 THEN @ ELSE @ \cup {b}],
        "gl", "GenBuffers", <<b>>)

glBindBuffer(s, b) ==
    Log([s EXCEPT !.gl.bufNames = IF b = 0 THEN @ ELSE @ \cup {b},
                  !.gl.buffers = IF b = 0 THEN @ ELSE @ \cup {b}],
        "gl", "BindBuffer", <<b>>)

glBufferData(s, size) == Log(s, "gl", "BufferData", <<size>>)

\* names that are no buffer, and 0, are silently ignored
glDeleteBuffers(s, b) ==
    Log([s EXCEPT !.gl.buffers = @ \ {b}, !.gl.bufNames = @ \ {b}],
        "gl", "DeleteBuffers", <<b>>)

(* ------------------------------ dispatch ------------------------------- *)
\* runOnContextThread(f): f runs, synchronously, as one unit of work.  The
\* unit starts in Unit(s) and runOnContextThread closes it.
Unit(s) == [s EXCEPT !.obs.unit = TRUE]

\* s is the state the unit of work, started in Unit(.), has produced
runOnContextThread(s) == [s EXCEPT !.obs.unit = FALSE]

(* ---------------------------- blend mode ------------------------------- *)
\* a blend-mode setter that does not store the mode it sets
BlendFuncUnitNoCache(s, mode) ==
    IF s.c.lastCompositeMode = mode
    THEN s
    ELSE LET sd == Operations(mode)
         IN glBlendFunc(s, sd[1], sd[2])

\* a blend-mode setter without the short circuit
BlendFuncUnitAlways(s, mode) ==
    LET s1 == SetField(s, "lastCompositeMode", mode)
        sd == Operations(mode)
    IN glBlendFunc(s1, sd[1], sd[2])

BlendFuncUnit(s, mode) ==
    IF s.c.lastCompositeMode = mode
    THEN s
    ELSE LET s1 == SetField(s, "lastCompositeMode", mode)
             sd == Operations(mode)
         IN glBlendFunc(s1, sd[1], sd[2])

BlendFunc(s, mode) == runOnContextThread(BlendFuncUnit(Unit(s), mode))

(* ------------------------------- reset --------------------------------- *)

newLocationCache ==
    [uniform |-> [p \in ProgramHandles |-> [n \in Names |-> NoLocation]],
     attrib |-> [p \in ProgramHandles |-> [n \in Names |-> NoLocation]]]

\* a reset that initializes the library whether or not it already is
resetInitUnitAlways(s, ok) ==
    LET s1 == glInit(s, ok)
    IN IF ~ok
       THEN Return(s1, 0, "opengl: initializing error")
       ELSE Log([s1 EXCEPT !.c.init = TRUE], "set", "init", <<1>>)

resetInitUnit(s, ok) ==
    IF s.c.init
    THEN s
    ELSE LET s1 == glInit(s, ok)
         IN IF ~ok
            THEN Return(s1, 0, "opengl: initializing error")
            ELSE Log([s1 EXCEPT !.c.init = TRUE], "set", "init", <<1>>)

resetQueryUnit(s) ==
    LET s1 == glGetFramebufferBinding(s)
    IN SetField(s1, "screenFramebuffer", s.gl.boundFramebuffer)

\* a reset that leaves the cached blend mode as it finds it
resetKeepMode(s, ok) ==
    LET s1 == runOnContextThread(resetInitUnit(Unit(s), ok))
    IN IF s1.obs.err # nil
       THEN s1
       ELSE LET s2 == Log([s1 EXCEPT !.c.locationCache = newLocationCache],
                          "set", "locationCache", <<>>)
                s3 == SetField(s2, "lastTexture", invalidTexture)
                s4 == SetField(s3, "lastFramebuffer", invalidFramebuffer)
                s5 == SetField(s4, "lastViewportWidth", 0)
                s6 == SetField(s5, "lastViewportHeight", 0)
                s8 == runOnContextThread(glEnableBlend(Unit(s6)))
                s9 == BlendFunc(s8, CompositeModeSourceOver)
            IN runOnContextThread(resetQueryUnit(Unit(s9)))

\* a reset that goes on after a failed gl.Init and returns the error at the end
resetIgnoreError(s, ok) ==
    LET s1 == runOnContextThread(resetInitUnit(Unit(s), ok))
        s2 == Log([s1 EXCEPT !.c.locationCache = newLocationCache],
                  "set", "locationCache", <<>>)
        s3 == SetField(s2, "lastTexture", invalidTexture)
        s4 == SetField(s3, "lastFramebuffer", invalidFramebuffer)
        s5 == SetField(s4, "lastViewportWidth", 0)
        s6 == SetField(s5, "lastViewportHeight", 0)
        s7 == SetField(s6, "lastCompositeMode", CompositeModeUnknown)
        s8 == runOnContextThread(glEnableBlend(Unit(s7)))
        s9 == BlendFunc(s8, CompositeModeSourceOver)
    IN runOnContextThread(resetQueryUnit(Unit(s9)))

reset(s, ok) ==
    LET s1 == runOnContextThread(resetInitUnit(Unit(s), ok))
    IN IF s1.obs.err # nil
       THEN s1
       ELSE LET s2 == Log([s1 EXCEPT !.c.locationCache = newLocationCache],
                          "set", "locationCache", <<>>)
                s3 == SetField(s2, "lastTexture", invalidTexture)
                s4 == SetField(s3, "lastFramebuffer", invalidFramebuffer)
                s5 == SetField(s4, "lastViewportWidth", 0)
                s6 == SetField(s5, "lastViewportHeight", 0)
                s7 == SetField(s6, "lastCompositeMode", CompositeModeUnknown)
                s8 == runOnContextThread(glEnableBlend(Unit(s7)))
                s9 == BlendFunc(s8, CompositeModeSourceOver)
            IN runOnContextThread(resetQueryUnit(Unit(s9)))

(* ------------------------------ textures ------------------------------- *)
bindTextureImpl(s, t) == runOnContextThread(glBindTexture(Unit(s), t))

\* context.go: the short-circuit bind
BindTexture(s, t) ==
    IF s.c.lastTexture = t
    THEN s
    ELSE SetField(bindTextureImpl(s, t), "lastTexture", t)

NewTextureGenUnit(s, t) ==
    LET s1 == glGenTextures(s, t)
    IN IF t <= 0
       THEN Return(s1, 0, "opengl: creating texture failed")
       ELSE Return(glPixelStorei(s1), t, nil)

NewTextureConfigUnit(s, width, height) ==
    glTexImage2D(glTexParameteri(glTexParameteri(glTexParameteri(
        glTexParameteri(s)))), width, height)

\* a create that configures without binding the new name
NewTextureNoBind(s, t, width, height) ==
    LET s1 == runOnContextThread(NewTextureGenUnit(Unit(s), t))
    IN IF s1.obs.err # nil
       THEN s1
       ELSE runOnContextThread(NewTextureConfigUnit(Unit(s1), width, height))

\* t is the name glGenTextures hands out
NewTexture(s, t, width, height) ==
    LET s1 == runOnContextThread(NewTextureGenUnit(Unit(s), t))
    IN IF s1.obs.err # nil
       THEN s1
       ELSE LET s2 == BindTexture(s1, s1.obs.ret)
            IN runOnContextThread(NewTextureConfigUnit(Unit(s2), width, height))

\* a delete that forgets the cached binding
DeleteTextureUnitKeepCache(s, t) ==
    IF ~glIsTexture(s, t) THEN s ELSE glDeleteTextures(s, t)

DeleteTextureUnit(s, t) ==
    IF ~glIsTexture(s, t)
    THEN s
    ELSE LET s1 == IF s.c.lastTexture = t
                   THEN SetField(s, "lastTexture", invalidTexture)
                   ELSE s
         IN glDeleteTextures(s1, t)

DeleteTexture(s, t) == runOnContextThread(DeleteTextureUnit(Unit(s), t))

IsTexture(s, t) ==
    runOnContextThread(
        LET x == Unit(s)
        IN Return(Log(x, "gl", "IsTexture", <<t>>),
                  IF glIsTexture(x, t) THEN 1 ELSE 0, nil))

(* ---------------------------- framebuffers ----------------------------- *)
bindFramebufferImpl(s, f) ==
    runOnContextThread(glBindFramebuffer(Unit(s), f))

\* context.go: the short-circuit bind
bindFramebuffer(s, f) ==
    IF s.c.lastFramebuffer = f
    THEN s
    ELSE SetField(bindFramebufferImpl(s, f), "lastFramebuffer", f)

setViewportImpl(s, width, height) ==
    runOnContextThread(glViewport(Unit(s), width, height))

\* context.go: bind the framebuffer, then reconcile the viewport with its
\* dimensions
SetViewport(s, f, width, height) ==
    LET s1 == bindFramebuffer(s, f)
    IN IF s1.c.lastViewportWidth # width \/ s1.c.lastViewportHeight # height
       THEN LET s2 == setViewportImpl(s1, width, height)
                s3 == SetField(s2, "lastViewportWidth", width)
            IN SetField(s3, "lastViewportHeight", height)
       ELSE s1

BindScreenFramebuffer(s) == bindFramebuffer(s, s.c.screenFramebuffer)

NewFramebufferGenUnit(s, f) ==
    LET s1 == glGenFramebuffers(s, f)
    IN IF f <= 0
       THEN Return(s1, 0,
                "opengl: creating framebuffer failed: gl.IsFramebuffer returns false")
       ELSE s1

\* an attach unit that asks glGetError before it looks at the status
NewFramebufferAttachUnitErrorFirst(s, f, texture, status, e) ==
    LET s1 == glFramebufferTexture2D(s, texture)
        s2 == glCheckFramebufferStatus(s1, status)
    IN IF status # FRAMEBUFFER_COMPLETE
       THEN LET s3 == glGetError(s2, e)
            IN IF e # NO_ERROR
               THEN ReturnCode(s3, 0,
                   "opengl: creating framebuffer failed: (glGetError) %d", e)
               ELSE IF status # 0
                    THEN ReturnCode(s3, 0,
                        "opengl: creating framebuffer failed: %v", status)
                    ELSE Return(s3, 0,
                        "opengl: creating framebuffer failed: unknown error")
       ELSE Return(s2, f, nil)

\* status is what glCheckFramebufferStatusEXT reports, e what glGetError
\* reports when asked
NewFramebufferAttachUnit(s, f, texture, status, e) ==
    LET s1 == glFramebufferTexture2D(s, texture)
        s2 == glCheckFramebufferStatus(s1, status)
    IN IF status # FRAMEBUFFER_COMPLETE
       THEN IF status # 0
            THEN ReturnCode(s2, 0, "opengl: creating framebuffer failed: %v", status)
            ELSE LET s3 == glGetError(s2, e)
                 IN IF e # NO_ERROR
                    THEN ReturnCode(s3, 0,
                        "opengl: creating framebuffer failed: (glGetError) %d", e)
                    ELSE Return(s3, 0,
                        "opengl: creating framebuffer failed: unknown error")
       ELSE Return(s2, f, nil)

\* f is the name glGenFramebuffersEXT hands out
NewFramebuffer(s, f, texture, status, e) ==
    LET s1 == runOnContextThread(NewFramebufferGenUnit(Unit(s), f))
    IN IF s1.obs.err # nil
       THEN s1
       ELSE LET s2 == bindFramebuffer(s1, f)
            IN runOnContextThread(
                   NewFramebufferAttachUnit(Unit(s2), f, texture, status, e))

\* a delete that leaves the cache as it is
DeleteFramebufferUnitKeepCache(s, f) ==
    IF ~glIsFramebuffer(s, f) THEN s ELSE glDeleteFramebuffers(s, f)

\* a delete that does not ask whether the handle is a framebuffer
DeleteFramebufferUnitUnguarded(s, f) ==
    LET s1 == IF s.c.lastFramebuffer = f
              THEN SetField(SetField(SetField(s,
                       "lastFramebuffer", invalidFramebuffer),
                       "lastViewportWidth", 0),
                       "lastViewportHeight", 0)
              ELSE s
    IN glDeleteFramebuffers(s1, f)

\* a delete that resets the cached framebuffer and keeps the cached viewport
DeleteFramebufferUnitKeepViewport(s, f) ==
    IF ~glIsFramebuffer(s, f)
    THEN s
    ELSE LET s1 == IF s.c.lastFramebuffer = f
                   THEN SetField(s, "lastFramebuffer", invalidFramebuffer)
                   ELSE s
         IN glDeleteFramebuffers(s1, f)

DeleteFramebufferUnit(s, f) ==
    IF ~glIsFramebuffer(s, f)
    THEN s
    ELSE LET s1 == IF s.c.lastFramebuffer = f
                   THEN SetField(SetField(SetField(s,
                            "lastFramebuffer", invalidFramebuffer),
                            "lastViewportWidth", 0),
                            "lastViewportHeight", 0)
                   ELSE s
         IN glDeleteFramebuffers(s1, f)

DeleteFramebuffer(s, f) ==
    runOnContextThread(DeleteFramebufferUnit(Unit(s), f))

(* ----------------------- shaders and programs -------------------------- *)
\* sh is the name glCreateShader hands out, compiled the COMPILE_STATUS
newShaderUnit(s, sh, compiled) ==
    LET s1 == glCreateShader(s, sh)
    IN IF sh = 0
       THEN Return(s1, 0, "opengl: glCreateShader failed")
       ELSE LET s2 == Log(Log(s1, "gl", "ShaderSource", <<sh>>),
                          "gl", "CompileShader", <<sh>>)
            IN IF ~compiled
               THEN Return(s2, 0, "opengl: shader compile failed")
               ELSE Return(s2, sh, nil)

newShader(s, sh, compiled) ==
    runOnContextThread(newShaderUnit(Unit(s), sh, compiled))

deleteShader(s, sh) == runOnContextThread(glDeleteShader(Unit(s), sh))

RECURSIVE AttachAll(_, _, _)
AttachAll(s, p, shaders) ==
    IF shaders = <<>>
    THEN s
    ELSE AttachAll(glAttachShader(s, p, Head(shaders)), p, Tail(shaders))

\* p is the name glCreateProgram hands out; layout is the outcome of the
\* link (Unlinked: LINK_STATUS is false)
newProgramUnit(s, p, shaders, layout) ==
    LET s1 == glCreateProgram(s, p)
    IN IF p = 0
       THEN Return(s1, 0, "opengl: glCreateProgram failed")
       ELSE LET s2 == glLinkProgram(AttachAll(s1, p, shaders), p, layout)
            IN IF layout = Unlinked
               THEN Return(s2, 0, "opengl: program error")
               ELSE Return(s2, p, nil)

newProgram(s, p, shaders, layout) ==
    runOnContextThread(newProgramUnit(Unit(s), p, shaders, layout))

deleteProgramUnit(s, p) ==
    IF ~glIsProgram(s, p)
    THEN s
    ELSE glDeleteProgram(s, p)

deleteProgram(s, p) == runOnContextThread(deleteProgramUnit(Unit(s), p))

(* --------------------------- locations --------------------------------- *)
getProgramID(p) == p

Panic(s) == [s EXCEPT !.obs.panicked = TRUE]

\* a resolution that returns the device's -1 as a location
getUniformLocationImplNoPanic(s, p, location) ==
    LET uniform == glLocation(s, p, location)
        s1 == Log(s, "gl", "GetUniformLocation", <<p, location, uniform>>)
    IN Return(s1, uniform, nil)

getUniformLocationImpl(s, p, location) ==
    LET uniform == glLocation(s, p, location)
        s1 == Log(s, "gl", "GetUniformLocation", <<p, location, uniform>>)
    IN IF uniform = -1
       THEN Panic(s1)
       ELSE Return(s1, uniform, nil)

getAttribLocationImpl(s, p, location) ==
    LET attrib == glLocation(s, p, location)
        s1 == Log(s, "gl", "GetAttribLocation", <<p, location, attrib>>)
    IN IF attrib = -1
       THEN Panic(s1)
       ELSE Return(s1, attrib, nil)

\* locationcache.go: the location of (p, location), resolved by the device
\* on the first request and stored; the result is left in obs.ret
GetUniformLocation(s, p, location) ==
    LET id == getProgramID(p)
        l == s.c.locationCache.uniform[id][location]
    IN IF l # NoLocation
       THEN Return(s, l, nil)
       ELSE LET s1 == getUniformLocationImpl(s, p, location)
            IN IF s1.obs.panicked
               THEN s1
               ELSE Log([s1 EXCEPT
                           !.c.locationCache.uniform[id][location] = s1.obs.ret],
                        "set", "locationCache", <<id, s1.obs.ret>>)

GetAttribLocation(s, p, location) ==
    LET id == getProgramID(p)
        l == s.c.locationCache.attrib[id][location]
    IN IF l # NoLocation
       THEN Return(s, l, nil)
       ELSE LET s1 == getAttribLocationImpl(s, p, location)
            IN IF s1.obs.panicked
               THEN s1
               ELSE Log([s1 EXCEPT
                           !.c.locationCache.attrib[id][location] = s1.obs.ret],
                        "set", "locationCache", <<id, s1.obs.ret>>)

\* a device call that takes the location found
WithUniform(s, p, location, call) ==
    LET s1 == GetUniformLocation(s, p, location)
    IN IF s1.obs.panicked THEN s1 ELSE Log(s1, "gl", call, <<s1.obs.ret>>)

WithAttrib(s, p, location, call) ==
    LET s1 == GetAttribLocation(s, p, location)
    IN IF s1.obs.panicked THEN s1 ELSE Log(s1, "gl", call, <<s1.obs.ret>>)

\* a setter that looks the location up and sets the uniform on the calling
\* thread
uniformIntOutside(s, p, location, v) ==
    WithUniform(s, p, location, "Uniform1i")

\* a setter that asks the device for the location every time
uniformIntDirect(s, p, location, v) ==
    runOnContextThread(
        LET s1 == getUniformLocationImpl(Unit(s), p, location)
        IN IF s1.obs.panicked THEN s1
           ELSE Log(s1, "gl", "Uniform1i", <<s1.obs.ret>>))

uniformInt(s, p, location, v) ==
    runOnContextThread(WithUniform(Unit(s), p, location, "Uniform1i"))

uniformFloat(s, p, location, v) ==
    runOnContextThread(WithUniform(Unit(s), p, location, "Uniform1f"))

\* n is len(v)
uniformFloats(s, p, location, n) ==
    runOnContextThread(
        LET x == Unit(s)
        IN CASE n = 2 -> WithUniform(x, p, location, "Uniform2fv")
                     [] n = 4 -> WithUniform(x, p, location, "Uniform4fv")
                     [] n = 16 -> WithUniform(x, p, location, "UniformMatrix4fv")
                     [] OTHER ->
                          LET s1 == GetUniformLocation(x, p, location)
                          IN Panic(s1))

vertexAttribPointer(s, p, location) ==
    runOnContextThread(WithAttrib(Unit(s), p, location, "VertexAttribPointer"))

enableVertexAttribArray(s, p, location) ==
    runOnContextThread(WithAttrib(Unit(s), p, location, "EnableVertexAttribArray"))

disableVertexAttribArray(s, p, location) ==
    runOnContextThread(WithAttrib(Unit(s), p, location, "DisableVertexAttribArray"))

(* ------------------------------ buffers -------------------------------- *)
\* b is the name glGenBuffers hands out
newArrayBuffer(s, b, size) ==
    runOnContextThread(Return(glBufferData(glBindBuffer(glGenBuffers(Unit(s), b), b), size),
                          b, nil))

newElementArrayBuffer(s, b, size) ==
    runOnContextThread(Return(glBufferData(glBindBuffer(glGenBuffers(Unit(s), b), b), size),
                          b, nil))

deleteBuffer(s, b) == runOnContextThread(glDeleteBuffers(Unit(s), b))

(* ------------------------------ history -------------------------------- *)
NoArg == -3

NoResolutions == [p \in ProgramHandles |-> [n \in Names |-> 0]]

NoFirst == [p \in ProgramHandles |-> [n \in Names |-> NoLocation]]

NoSeq == [last |-> NoArg, runs |-> 0, calls |-> 0]

NoHistory ==
    [created |-> {}, delBound |-> {}, reuse |-> FALSE,
     needBind |-> FALSE, needViewport |-> FALSE, vpBefore |-> <<0, 0>>,
     reapplied |-> FALSE,
     nUniform |-> NoResolutions, nAttrib |-> NoResolutions,
     firstUniform |-> NoFirst, firstAttrib |-> NoFirst,
     seqTexture |-> NoSeq, seqFramebuffer |-> NoSeq, seqBlend |-> NoSeq]

\* the device call f(a) is in the log
Issued(log, f, a) ==
    \E i \in 1..Len(log) : log[i].k = "gl" /\ log[i].f = f /\ log[i].a = a

\* the Context field f was written (to anything)
Written(log, f) == \E i \in 1..Len(log) : log[i].k = "set" /\ log[i].f = f

\* the name a glGen* / glCreate* call of the log handed out, 0 when none
Generated(log, f) ==
    LET g == GlCalls(log, f) IN IF g = <<>> THEN 0 ELSE g[1].a[1]

\* the texture handles the operation passed to BindTexture
TexturesBound(o) ==
    CASE o.op = "BindTexture" -> {o.args[1]}
      [] o.op = "NewTexture" /\ o.err = nil -> {o.ret}
      [] OTHER -> {}

\* the operation called bindFramebuffer
BindsFramebuffer(o) ==
    \/ o.op \in {"SetViewport", "BindScreenFramebuffer", "bindFramebuffer"}
    \/ o.op = "NewFramebuffer" /\ Generated(o.log, "GenFramebuffersEXT") # 0

\* the resolutions of (p, n) by the device call f in the log
Resolutions(log, f, p, n) ==
    SelectSeq(log, LAMBDA e : e.k = "gl" /\ e.f = f /\ e.a[1] = p /\ e.a[2] = n)

\* the operations that look a location up
LocationOps ==
    {"uniformInt", "uniformFloat", "uniformFloats", "vertexAttribPointer",
     "enableVertexAttribArray", "disableVertexAttribArray"}

\* pre is the state before the operation, h its history, post the state after
History(pre, h, post) ==
    LET o == post.obs
        arg == IF o.args = <<>> THEN NoArg ELSE o.args[1]
        texDeleted == o.op = "DeleteTexture" /\ arg \in pre.gl.textures
        fbDeletedBound == /\ o.op = "DeleteFramebuffer"
                          /\ arg \in pre.gl.framebuffers
                          /\ pre.c.lastFramebuffer = arg
        wasReset == o.op = "reset" /\ o.err = nil
        resolves == wasReset \/ o.op \in LocationOps
        count(old, f) ==
            [p \in ProgramHandles |-> [n \in Names |->
                (IF wasReset THEN 0 ELSE old[p][n])
                    + Len(Resolutions(o.log, f, p, n))]]
        first(old, f) ==
            [p \in ProgramHandles |-> [n \in Names |->
                LET was == IF wasReset THEN NoLocation ELSE old[p][n]
                    r == Resolutions(o.log, f, p, n)
                IN IF was = NoLocation /\ r # <<>> THEN r[1].a[3] ELSE was]]
    IN [h EXCEPT
          !.created = (@ \cup (IF o.op = "NewTexture" /\ o.err = nil
                               THEN {o.ret} ELSE {}))
                        \ (IF o.op = "DeleteTexture" THEN {arg} ELSE {}),
          !.delBound = (@ \ TexturesBound(o))
                         \cup (IF texDeleted /\ pre.c.lastTexture = arg
                               THEN {arg} ELSE {}),
          !.reuse = TexturesBound(o) \cap h.delBound # {},
          !.needBind = IF fbDeletedBound THEN TRUE
                       ELSE IF BindsFramebuffer(o) THEN FALSE ELSE @,
          !.needViewport = IF fbDeletedBound THEN TRUE
                           ELSE IF o.op = "SetViewport" THEN FALSE ELSE @,
          !.vpBefore = IF fbDeletedBound /\ ~h.needViewport
                       THEN <<pre.c.lastViewportWidth, pre.c.lastViewportHeight>>
                       ELSE IF o.op = "SetViewport" THEN <<0, 0>> ELSE @,
          !.reapplied = /\ o.op = "SetViewport"
                        /\ h.needViewport
                        /\ <<o.args[2], o.args[3]>> = h.vpBefore,
          !.nUniform = IF resolves THEN count(@, "GetUniformLocation") ELSE @,
          !.nAttrib = IF resolves THEN count(@, "GetAttribLocation") ELSE @,
          !.firstUniform = IF resolves THEN first(@, "GetUniformLocation") ELSE @,
          !.firstAttrib = IF resolves THEN first(@, "GetAttribLocation") ELSE @]

Becomes(s) ==
    /\ c' = s.c
    /\ gl' = s.gl
    /\ obs' = s.obs
    /\ hist' = History(S, hist, s)
    /\ inflight' = inflight

\* a sequence of calls of one binding operation: q after a call with the
\* argument a that made n device calls
Extend(q, a, n) ==
    [last |-> a,
     runs |-> q.runs + (IF q.last = a THEN 0 ELSE 1),
     calls |-> q.calls + n]

\* the sequences of BindTexture, bindFramebuffer and BlendFunc calls since
\* the last reset
Counted(h, o) ==
    CASE o.op = "reset" ->
           [h EXCEPT !.seqTexture = NoSeq, !.seqFramebuffer = NoSeq,
                     !.seqBlend = NoSeq]
      [] o.op = "BindTexture" ->
           [h EXCEPT !.seqTexture =
               Extend(@, o.args[1], Len(GlCalls(o.log, "BindTexture")))]
      [] o.op = "bindFramebuffer" ->
           [h EXCEPT !.seqFramebuffer =
               Extend(@, o.args[1], Len(GlCalls(o.log, "BindFramebufferEXT")))]
      [] o.op = "BlendFunc" ->
           [h EXCEPT !.seqBlend =
               Extend(@, o.args[1], Len(GlCalls(o.log, "BlendFunc")))]
      [] OTHER -> h

BecomesCounted(s) ==
    /\ c' = s.c
    /\ gl' = s.gl
    /\ obs' = s.obs
    /\ hist' = Counted(History(S, hist, s), s.obs)
    /\ inflight' = inflight

\* The callers that are inside a NewTexture call, which is three steps: the
\* unit that generates the name, BindTexture, the unit that configures.
Callers == {1, 2}

NoCall == [pc |-> "idle", texture |-> 0, width |-> 0, height |-> 0]

\* a step of caller k's call, which goes on as call
BecomesCall(s, k, call) ==
    /\ c' = s.c
    /\ gl' = s.gl
    /\ obs' = s.obs
    /\ hist' = History(S, hist, s)
    /\ inflight' = [inflight EXCEPT ![k] = call]

(* ------------------------------ actions -------------------------------- *)
Init ==
    /\ c = [init |-> FALSE,
            locationCache |-> newLocationCache,
            screenFramebuffer |-> 0,
            lastFramebuffer |-> 0,
            lastTexture |-> 0,
            lastViewportWidth |-> 0,
            lastViewportHeight |-> 0,
            lastCompositeMode |-> CompositeModeSourceOver]
    /\ gl = [inits |-> 0,
             blend |-> FALSE,
             blendFunc |-> <<one, zero>>,
             texNames |-> {},
             textures |-> {},
             boundTexture |-> 0,
             fbNames |-> {},
             framebuffers |-> {},
             boundFramebuffer |-> 0,
             shaders |-> {},
             programs |-> [p \in ProgramHandles |-> NoProgram],
             bufNames |-> {},
             buffers |-> {}]
    /\ obs = [op |-> "Init", args |-> <<>>, ret |-> 0, err |-> nil, code |-> 0,
              log |-> <<>>, unit |-> FALSE, panicked |-> FALSE]
    /\ hist = NoHistory
    /\ inflight = [k \in Callers |-> NoCall]

\* the device library's entry points exist once gl.Init has succeeded
Ready == c.init /\ ~obs.panicked

Reset ==
    /\ ~obs.panicked
    /\ gl.inits < MaxInit
    /\ \E ok \in BOOLEAN :
         Becomes(reset(Begin(S, "reset", <<>>), ok))

DoBlendFunc ==
    /\ Ready
    /\ \E mode \in Modes :
         Becomes(BlendFunc(Begin(S, "BlendFunc", <<mode>>), mode))

DoBindTexture ==
    /\ Ready
    /\ \E t \in TextureHandles :
         Becomes(BindTexture(Begin(S, "BindTexture", <<t>>), t))

DoNewTexture ==
    /\ Ready
    /\ \E t \in ((1..MaxTexture) \ gl.texNames) \cup {0}, w \in Dims, h \in Dims :
         Becomes(NewTexture(Begin(S, "NewTexture", <<w, h>>), t, w, h))

DoDeleteTexture ==
    /\ Ready
    /\ \E t \in TextureHandles :
         Becomes(DeleteTexture(Begin(S, "DeleteTexture", <<t>>), t))

DoIsTexture ==
    /\ Ready
    /\ \E t \in TextureHandles :
         Becomes(IsTexture(Begin(S, "IsTexture", <<t>>), t))

DoSetViewport ==
    /\ Ready
    /\ \E f \in FramebufferHandles, w \in Dims, h \in Dims :
         Becomes(SetViewport(Begin(S, "SetViewport", <<f, w, h>>), f, w, h))

DoBindScreenFramebuffer ==
    /\ Ready
    /\ Becomes(BindScreenFramebuffer(Begin(S, "BindScreenFramebuffer", <<>>)))

\* a framebuffer whose colour attachment is not a texture is never complete
FramebufferStatuses(texture) ==
    {FRAMEBUFFER_INCOMPLETE_ATTACHMENT, 0}
        \cup (IF texture \in gl.textures THEN {FRAMEBUFFER_COMPLETE} ELSE {})

\* glGetError is asked only when the status is 0
FramebufferErrors(status) ==
    IF status = 0 THEN {NO_ERROR, INVALID_OPERATION} ELSE {NO_ERROR}

DoNewFramebuffer ==
    /\ Ready
    /\ \E f \in ((1..MaxFramebuffer) \ gl.fbNames) \cup {0},
          texture \in TextureHandles :
         \E status \in FramebufferStatuses(texture) :
           \E e \in FramebufferErrors(status) :
           Becomes(NewFramebuffer(Begin(S, "NewFramebuffer", <<texture>>),
                                  f, texture, status, e))

DoDeleteFramebuffer ==
    /\ Ready
    /\ \E f \in FramebufferHandles \cup {invalidFramebuffer} :
         Becomes(DeleteFramebuffer(Begin(S, "DeleteFramebuffer", <<f>>), f))

DoNewShader ==
    /\ Ready
    /\ \E sh \in (ShaderHandles \ gl.shaders) \cup {0}, compiled \in BOOLEAN :
         Becomes(newShader(Begin(S, "newShader", <<>>), sh, compiled))

DoDeleteShader ==
    /\ Ready
    /\ \E sh \in ShaderHandles \cup {0} :
         Becomes(deleteShader(Begin(S, "deleteShader", <<sh>>), sh))

FreePrograms == {p \in ProgramHandles : gl.programs[p] = NoProgram}

DoNewProgram ==
    /\ Ready
    /\ \E p \in FreePrograms \cup {0}, layout \in Layouts \cup {Unlinked},
          shaders \in {<<>>} \cup {<<sh>> : sh \in gl.shaders} :
         Becomes(newProgram(Begin(S, "newProgram", shaders), p, shaders, layout))

DoDeleteProgram ==
    /\ Ready
    /\ \E p \in ProgramHandles \cup {0} :
         Becomes(deleteProgram(Begin(S, "deleteProgram", <<p>>), p))

\* the counts of device resolutions stay within the bound
Resolvable(p, n) ==
    hist.nUniform[p][n] < MaxResolve /\ hist.nAttrib[p][n] < MaxResolve

DoUniformInt ==
    /\ Ready
    /\ \E p \in ProgramHandles, n \in Names :
         /\ Resolvable(p, n)
         /\ Becomes(uniformInt(Begin(S, "uniformInt", <<p, n>>), p, n, 0))

DoUniformFloat ==
    /\ Ready
    /\ \E p \in ProgramHandles, n \in Names :
         /\ Resolvable(p, n)
         /\ Becomes(uniformFloat(Begin(S, "uniformFloat", <<p, n>>), p, n, 0))

DoUniformFloats ==
    /\ Ready
    /\ \E p \in ProgramHandles, n \in Names, len \in {2, 4, 16} :
         /\ Resolvable(p, n)
         /\ Becomes(uniformFloats(Begin(S, "uniformFloats", <<p, n>>), p, n, len))

DoVertexAttribPointer ==
    /\ Ready
    /\ \E p \in ProgramHandles, n \in Names :
         /\ Resolvable(p, n)
         /\ Becomes(vertexAttribPointer(
                Begin(S, "vertexAttribPointer", <<p, n>>), p, n))

DoEnableVertexAttribArray ==
    /\ Ready
    /\ \E p \in ProgramHandles, n \in Names :
         /\ Resolvable(p, n)
         /\ Becomes(enableVertexAttribArray(
                Begin(S, "enableVertexAttribArray", <<p, n>>), p, n))

DoDisableVertexAttribArray ==
    /\ Ready
    /\ \E p \in ProgramHandles, n \in Names :
         /\ Resolvable(p, n)
         /\ Becomes(disableVertexAttribArray(
                Begin(S, "disableVertexAttribArray", <<p, n>>), p, n))

DoNewArrayBuffer ==
    /\ Ready
    /\ \E b \in BufferHandles \ gl.bufNames :
         Becomes(newArrayBuffer(Begin(S, "newArrayBuffer", <<>>), b, 1))

DoNewElementArrayBuffer ==
    /\ Ready
    /\ \E b \in BufferHandles \ gl.bufNames :
         Becomes(newElementArrayBuffer(Begin(S, "newElementArrayBuffer", <<>>), b, 1))

DoDeleteBuffer ==
    /\ Ready
    /\ \E b \in BufferHandles \cup {0} :
         Becomes(deleteBuffer(Begin(S, "deleteBuffer", <<b>>), b))

Next ==
    \/ Reset
    \/ DoBlendFunc
    \/ DoBindTexture
    \/ DoNewTexture
    \/ DoDeleteTexture
    \/ DoIsTexture
    \/ DoSetViewport
    \/ DoBindScreenFramebuffer
    \/ DoNewFramebuffer
    \/ DoDeleteFramebuffer
    \/ DoNewShader
    \/ DoDeleteShader
    \/ DoNewProgram
    \/ DoDeleteProgram
    \/ DoUniformInt
    \/ DoUniformFloat
    \/ DoUniformFloats
    \/ DoVertexAttribPointer
    \/ DoEnableVertexAttribArray
    \/ DoDisableVertexAttribArray
    \/ DoNewArrayBuffer
    \/ DoNewElementArrayBuffer
    \/ DoDeleteBuffer

Spec == Init /\ [][Next]_vars

NextTexture ==
    \/ Reset
    \/ DoBlendFunc
    \/ DoBindTexture
    \/ DoNewTexture
    \/ DoDeleteTexture
    \/ DoIsTexture

SpecTexture == Init /\ [][NextTexture]_vars

NextFramebuffer ==
    \/ Reset
    \/ DoNewTexture
    \/ DoSetViewport
    \/ DoBindScreenFramebuffer
    \/ DoNewFramebuffer
    \/ DoDeleteFramebuffer

SpecFramebuffer == Init /\ [][NextFramebuffer]_vars

NextProgram ==
    \/ Reset
    \/ DoNewShader
    \/ DoDeleteShader
    \/ DoNewProgram
    \/ DoDeleteProgram
    \/ DoUniformInt
    \/ DoUniformFloat
    \/ DoUniformFloats
    \/ DoVertexAttribPointer
    \/ DoEnableVertexAttribArray
    \/ DoDisableVertexAttribArray

SpecProgram == Init /\ [][NextProgram]_vars

\* Sequences of calls of one binding operation, counted.
Countable(q) == q.runs < MaxCalls /\ q.calls <= MaxCalls

ResetSeq ==
    /\ ~obs.panicked
    /\ gl.inits < MaxInit
    /\ \E ok \in BOOLEAN :
         BecomesCounted(reset(Begin(S, "reset", <<>>), ok))

BindTextureSeq ==
    /\ Ready
    /\ Countable(hist.seqTexture)
    /\ \E t \in TextureHandles :
         BecomesCounted(BindTexture(Begin(S, "BindTexture", <<t>>), t))

BindFramebufferSeq ==
    /\ Ready
    /\ Countable(hist.seqFramebuffer)
    /\ \E f \in FramebufferHandles :
         BecomesCounted(bindFramebuffer(Begin(S, "bindFramebuffer", <<f>>), f))

BlendFuncSeq ==
    /\ Ready
    /\ Countable(hist.seqBlend)
    /\ \E mode \in Modes :
         BecomesCounted(BlendFunc(Begin(S, "BlendFunc", <<mode>>), mode))

NextBind ==
    \/ ResetSeq
    \/ BindTextureSeq
    \/ BindFramebufferSeq
    \/ BlendFuncSeq

SpecBind == Init /\ [][NextBind]_vars

\* Creation and deletion of the five kinds of object.
NextDelete ==
    \/ Reset
    \/ DoNewTexture
    \/ DoDeleteTexture
    \/ DoBindScreenFramebuffer
    \/ DoNewFramebuffer
    \/ DoDeleteFramebuffer
    \/ DoNewShader
    \/ DoDeleteShader
    \/ DoNewProgram
    \/ DoUniformInt
    \/ DoDeleteProgram
    \/ DoNewArrayBuffer
    \/ DoDeleteBuffer

SpecDelete == Init /\ [][NextDelete]_vars

\* Resets between operations that fill every cache.
NextReset ==
    \/ Reset
    \/ DoBlendFunc
    \/ DoBindTexture
    \/ DoSetViewport
    \/ DoNewProgram
    \/ DoUniformInt

SpecReset == Init /\ [][NextReset]_vars

\* The operations that bind, create and delete textures and framebuffers
\* and set the blend mode.
NextMirror ==
    \/ Reset
    \/ DoBlendFunc
    \/ DoBindTexture
    \/ DoNewTexture
    \/ DoDeleteTexture
    \/ DoSetViewport
    \/ DoBindScreenFramebuffer
    \/ DoNewFramebuffer
    \/ DoDeleteFramebuffer

SpecMirror == Init /\ [][NextMirror]_vars

\* Two callers; a NewTexture call is taken unit by unit, and the units of
\* the two callers interleave.  BindTexture is taken as one step.
NewTextureGen(k) ==
    /\ Ready
    /\ inflight[k].pc = "idle"
    /\ \E t \in ((1..MaxTexture) \ gl.texNames) \cup {0}, w \in Dims, h \in Dims :
         LET s == runOnContextThread(NewTextureGenUnit(
                      Unit(Begin(S, "NewTexture.gen", <<w, h>>)), t))
         IN BecomesCall(s, k,
                IF s.obs.err # nil
                THEN NoCall
                ELSE [pc |-> "bind", texture |-> s.obs.ret,
                      width |-> w, height |-> h])

NewTextureBind(k) ==
    /\ Ready
    /\ inflight[k].pc = "bind"
    /\ LET t == inflight[k].texture
       IN BecomesCall(BindTexture(Begin(S, "BindTexture", <<t>>), t), k,
                      [inflight[k] EXCEPT !.pc = "config"])

NewTextureConfig(k) ==
    /\ Ready
    /\ inflight[k].pc = "config"
    /\ LET call == inflight[k]
           s == runOnContextThread(NewTextureConfigUnit(
                    Unit(Begin(S, "NewTexture", <<call.width, call.height>>)),
                    call.width, call.height))
       IN BecomesCall(Return(s, call.texture, nil), k, NoCall)

NextConcurrent ==
    \/ Reset
    \/ DoBindTexture
    \/ DoDeleteTexture
    \/ \E k \in Callers : NewTextureGen(k)
    \/ \E k \in Callers : NewTextureBind(k)
    \/ \E k \in Callers : NewTextureConfig(k)

SpecConcurrent == Init /\ [][NextConcurrent]_vars

(* ------------------------------ properties ---------------------------- *)

\* C1: BlendFunc(mode) with the cached mode equal to mode makes no device
\* blend-function call and changes neither the cache nor the device; with
\* another cached mode it makes exactly one, with the factors of mode, and
\* the cached mode becomes mode.  (A second BlendFunc(SourceOver) in a row
\* is the first case.)
C1_BlendFuncShortCircuit ==
    [][obs'.op = "BlendFunc" =>
         LET mode == obs'.args[1]
             calls == GlCalls(obs'.log, "BlendFunc")
         IN IF c.lastCompositeMode = mode
            THEN calls = <<>> /\ c' = c /\ gl' = gl
            ELSE /\ Len(calls) = 1
                 /\ calls[1].a = Operations(mode)
                 /\ c'.lastCompositeMode = mode
                 /\ gl'.blendFunc = Operations(mode)]_vars

\* a BlendFunc(Lighter) that was short-circuited: Lighter was set before
C1_Witness ==
    /\ obs.op = "BlendFunc"
    /\ obs.args = <<CompositeModeLighter>>
    /\ NumCalls("BlendFunc") = 0
    /\ c.lastCompositeMode = CompositeModeLighter

\* C4: DeleteTexture of a live texture that is the cached bound texture
\* sets the cache to invalidTexture before the device delete; of a live
\* texture that is not, leaves the cache alone.  A handle deleted while it
\* was the cached texture is bound on the device when it is next passed to
\* BindTexture, also when glGenTextures hands it out again.
C4_DeleteBoundTexture ==
    [][/\ obs'.op = "DeleteTexture" /\ obs'.args[1] \in gl.textures =>
            LET t == obs'.args[1]
                w == FirstIndex(obs'.log, "set", "lastTexture")
                d == FirstIndex(obs'.log, "gl", "DeleteTextures")
            IN IF c.lastTexture = t
               THEN c'.lastTexture = invalidTexture /\ 0 < w /\ w < d
               ELSE c'.lastTexture = c.lastTexture /\ w = 0 /\ 0 < d
       /\ \A t \in TexturesBound(obs') \cap hist.delBound :
            /\ Issued(obs'.log, "BindTexture", <<t>>)
            /\ gl'.boundTexture = t]_vars

\* glGenTextures handed out again a handle that was deleted while cached,
\* and NewTexture bound it on the device
C4_Witness ==
    /\ hist.reuse
    /\ obs.op = "NewTexture"
    /\ obs.ret # 0
    /\ Issued(obs.log, "BindTexture", <<obs.ret>>)

\* C6: when glGenTextures hands out a non-zero name, NewTexture returns it
\* with no error and it is a texture on the device from then until
\* DeleteTexture (IsTexture reports what the device holds); after
\* DeleteTexture, which has no error, it is no texture.  When glGenTextures
\* hands out 0, NewTexture returns an error and neither binds nor
\* configures nor allocates.
C6_TextureLifecycle ==
    /\ hist.created \subseteq gl.textures
    /\ invalidTexture \notin hist.created
    /\ obs.op = "NewTexture" =>
          LET t == Generated(obs.log, "GenTextures")
          IN IF t # 0
             THEN /\ obs.err = nil /\ obs.ret = t /\ t # invalidTexture
                  /\ t \in hist.created
             ELSE /\ obs.err # nil
                  /\ NumCalls("BindTexture") = 0
                  /\ NumCalls("TexParameteri") = 0
                  /\ NumCalls("TexImage2D") = 0
    /\ obs.op = "IsTexture" => (obs.ret = 1 <=> obs.args[1] \in gl.textures)
    /\ obs.op = "DeleteTexture" =>
          obs.err = nil /\ obs.args[1] \notin gl.textures

\* IsTexture answered true for a handle NewTexture returned
C6_Witness ==
    /\ obs.op = "IsTexture"
    /\ obs.ret = 1
    /\ obs.args[1] \in hist.created

\* C10: the library is initialized at most once: a reset of an initialized
\* Context makes no initialization call; a reset of an uninitialized one
\* makes one, and when it fails the reset returns the initialization error
\* and the Context stays uninitialized.
C10_InitOnce ==
    /\ [](gl.inits <= 1 /\ (c.init <=> gl.inits = 1))
    /\ [][obs'.op = "reset" =>
            LET n == Len(GlCalls(obs'.log, "Init"))
            IN IF c.init
               THEN n = 0 /\ obs'.err = nil /\ c'.init
               ELSE /\ n = 1
                    /\ obs'.err = nil => c'.init
                    /\ obs'.err # nil =>
                          /\ obs'.err = "opengl: initializing error"
                          /\ ~c'.init]_vars

\* a reset of an initialized Context, which skipped the initialization
C10_Witness ==
    /\ obs.op = "reset"
    /\ c.init
    /\ gl.inits = 1
    /\ NumCalls("Init") = 0

C7_FailedCreateLeavesNoHandle ==
    LET f == Generated(obs.log, "GenFramebuffersEXT")
        st == GlCalls(obs.log, "CheckFramebufferStatusEXT")
    IN (/\ obs.op = "NewFramebuffer"
        /\ st # <<>>
        /\ st[1].a[1] # FRAMEBUFFER_COMPLETE) =>
          /\ obs.err # nil
          /\ obs.ret # f
          /\ f \notin gl.framebuffers
          /\ c.lastFramebuffer # f

\* the operations that use a uniform location, and an attribute location
UniformOps == {"uniformInt", "uniformFloat", "uniformFloats"}

AttribOps ==
    {"vertexAttribPointer", "enableVertexAttribArray", "disableVertexAttribArray"}

\* C8 (as stated): after deleteProgram of a live program p the location
\* cache holds no entry of p, and the location a uniform or attribute
\* operation uses is the one the program now under that handle has, never
\* one cached for a deleted program.
C8_DeleteProgramDropsLocations ==
    /\ (obs.op = "deleteProgram" /\ GlCalls(obs.log, "DeleteProgram") # <<>>) =>
          \A n \in Names :
              /\ c.locationCache.uniform[getProgramID(obs.args[1])][n] = NoLocation
              /\ c.locationCache.attrib[getProgramID(obs.args[1])][n] = NoLocation
    /\ (obs.op \in UniformOps \cup AttribOps /\ ~obs.panicked) =>
          obs.ret = glLocation(S, obs.args[1], obs.args[2])

\* C9: between two resets the device resolves a uniform name of a program
\* at most once, whichever of uniformInt, uniformFloat and uniformFloats
\* ask for it and however often, and each of them uses the location that
\* resolution gave; the same for attribute names and vertexAttribPointer,
\* enableVertexAttribArray and disableVertexAttribArray.
C9_ResolvedOnce ==
    /\ \A p \in ProgramHandles, n \in Names :
          hist.nUniform[p][n] <= 1 /\ hist.nAttrib[p][n] <= 1
    /\ (obs.op \in UniformOps /\ ~obs.panicked) =>
          /\ obs.ret # NoLocation
          /\ obs.ret = hist.firstUniform[obs.args[1]][obs.args[2]]
    /\ (obs.op \in AttribOps /\ ~obs.panicked) =>
          /\ obs.ret # NoLocation
          /\ obs.ret = hist.firstAttrib[obs.args[1]][obs.args[2]]

\* a uniform setter found the location in the cache: the device resolved
\* the name once, in an earlier operation, and was not asked again
C9_Witness ==
    /\ obs.op \in UniformOps
    /\ ~obs.panicked
    /\ GlCalls(obs.log, "GetUniformLocation") = <<>>
    /\ hist.nUniform[obs.args[1]][obs.args[2]] = 1
    /\ obs.ret = hist.firstUniform[obs.args[1]][obs.args[2]]

\* C2 (as stated): in a sequence of calls of BindTexture, of
\* bindFramebuffer or of BlendFunc, the device calls made are fewer than the
\* maximal runs of equal arguments.
C2_FewerCallsThanRuns ==
    /\ hist.seqTexture.runs > 0 => hist.seqTexture.calls < hist.seqTexture.runs
    /\ hist.seqFramebuffer.runs > 0 =>
          hist.seqFramebuffer.calls < hist.seqFramebuffer.runs
    /\ hist.seqBlend.runs > 0 => hist.seqBlend.calls < hist.seqBlend.runs

\* C2 (amended): in a sequence of calls of BindTexture, of bindFramebuffer
\* or of BlendFunc after a reset, the device calls made are at most as many
\* as the maximal runs of equal arguments.
C2_AtMostOneCallPerRun ==
    /\ hist.seqTexture.calls <= hist.seqTexture.runs
    /\ hist.seqFramebuffer.calls <= hist.seqFramebuffer.runs
    /\ hist.seqBlend.calls <= hist.seqBlend.runs

\* a BindTexture sequence of two runs and two device calls whose last call
\* repeated the handle before it and made no device call
C2_Witness ==
    /\ obs.op = "BindTexture"
    /\ NumCalls("BindTexture") = 0
    /\ hist.seqTexture.runs = 2
    /\ hist.seqTexture.calls = 2

\* the handle is no object of its kind on the device
Dead(s, op, h) ==
    CASE op = "DeleteTexture" -> ~glIsTexture(s, h)
      [] op = "DeleteFramebuffer" -> ~glIsFramebuffer(s, h)
      [] op = "deleteProgram" -> ~glIsProgram(s, h)
      [] op = "deleteShader" -> h \notin s.gl.shaders
      [] op = "deleteBuffer" -> h \notin s.gl.buffers

Deletes ==
    {"DeleteTexture", "DeleteFramebuffer", "deleteProgram", "deleteShader",
     "deleteBuffer"}

\* C3: DeleteTexture, DeleteFramebuffer, deleteProgram, deleteShader and
\* deleteBuffer of a handle that is no object of its kind on the device
\* (never created, or deleted) raise no error and change no field of the
\* Context, the location cache included; and after any of them the handle
\* is no object on the device, so that a second delete is such a call.
C3_DeleteDeadHandle ==
    [][obs'.op \in Deletes =>
         /\ Dead(S, obs'.op, obs'.args[1]) =>
               c' = c /\ obs'.err = nil /\ ~obs'.panicked
         /\ Dead(S', obs'.op, obs'.args[1])]_vars

\* a deleteProgram of a handle that is no program, with a location cached
C3_Witness ==
    /\ obs.op = "deleteProgram"
    /\ GlCalls(obs.log, "DeleteProgram") = <<>>
    /\ \E p \in ProgramHandles, n \in Names :
          c.locationCache.uniform[p][n] # NoLocation

\* C11: after a reset that returned no error the cached blend mode is
\* SourceOver and the device blend function its factor pair, the cached
\* texture is invalidTexture, the cached framebuffer invalidFramebuffer, the
\* cached viewport (0, 0), the location cache empty, and screenFramebuffer
\* the device's bound framebuffer; the device calls were made in the order
\* Enable, BlendFunc, GetIntegerv.
C11_ResetPostcondition ==
    (obs.op = "reset" /\ obs.err = nil) =>
        /\ c.lastCompositeMode = CompositeModeSourceOver
        /\ gl.blendFunc = Operations(CompositeModeSourceOver)
        /\ gl.blend
        /\ c.lastTexture = invalidTexture
        /\ c.lastFramebuffer = invalidFramebuffer
        /\ c.lastViewportWidth = 0 /\ c.lastViewportHeight = 0
        /\ c.locationCache = newLocationCache
        /\ c.screenFramebuffer = gl.boundFramebuffer
        /\ NumCalls("Enable") = 1 /\ NumCalls("BlendFunc") = 1
        /\ NumCalls("GetIntegerv") = 1
        /\ FirstIndex(obs.log, "gl", "Enable")
              < FirstIndex(obs.log, "gl", "BlendFunc")
        /\ FirstIndex(obs.log, "gl", "BlendFunc")
              < FirstIndex(obs.log, "gl", "GetIntegerv")

\* a reset of an initialized Context, with a framebuffer other than 0 bound
\* on the device
C11_Witness ==
    /\ obs.op = "reset"
    /\ obs.err = nil
    /\ NumCalls("Init") = 0
    /\ c.screenFramebuffer # 0
    /\ NumCalls("BlendFunc") = 1

\* C12: every device call an operation makes is made inside a unit of work
\* run by runOnContextThread, the location resolutions on a cache miss
\* included.
C12_DeviceCallsInUnits ==
    /\ ~obs.unit
    /\ \A i \in 1..Len(obs.log) : obs.log[i].k = "gl" => obs.log[i].u

\* a uniformInt that missed the cache: the device resolved the name, inside
\* the unit
C12_Witness ==
    /\ obs.op = "uniformInt"
    /\ \E i \in 1..Len(obs.log) :
          /\ obs.log[i].k = "gl"
          /\ obs.log[i].f = "GetUniformLocation"
          /\ obs.log[i].u

\* the fields of the cached state, and the location cache
CacheFields ==
    {"lastTexture", "lastFramebuffer", "lastViewportWidth",
     "lastViewportHeight", "lastCompositeMode", "locationCache"}

\* C13 (as stated): every write of a cached-state field or of the location
\* cache is made inside a unit of work run by runOnContextThread.
C13_CacheWritesInUnits ==
    \A i \in 1..Len(obs.log) :
        (obs.log[i].k = "set" /\ obs.log[i].f \in CacheFields) => obs.log[i].u

\* C14: once the library is initialized the cache mirrors the device: a
\* cached texture other than invalidTexture is the device's bound texture, a
\* cached framebuffer other than invalidFramebuffer is the device's bound
\* framebuffer, and a cached blend mode other than Unknown has its factor
\* pair as the device's blend function.
C14_CacheMirrorsDevice ==
    c.init =>
        /\ c.lastTexture # invalidTexture => c.lastTexture = gl.boundTexture
        /\ c.lastFramebuffer # invalidFramebuffer =>
              c.lastFramebuffer = gl.boundFramebuffer
        /\ c.lastCompositeMode # CompositeModeUnknown =>
              gl.blendFunc = Operations(c.lastCompositeMode)

\* the bound, cached framebuffer was deleted: the device unbound it and the
\* cache holds the sentinel, with a texture and a blend mode cached
C14_Witness ==
    /\ obs.op = "DeleteFramebuffer"
    /\ GlCalls(obs.log, "DeleteFramebuffersEXT") # <<>>
    /\ Written(obs.log, "lastFramebuffer")
    /\ c.lastFramebuffer = invalidFramebuffer
    /\ gl.boundFramebuffer = 0
    /\ c.lastTexture # invalidTexture
    /\ c.lastCompositeMode = CompositeModeLighter

\* C15 (as stated): the TexParameteri and TexImage2D calls of a NewTexture
\* call apply to the texture the call generated and returns: when its
\* configuring unit runs, that texture is the device's bound texture.
C15_ConfiguresOwnTexture ==
    (obs.op = "NewTexture" /\ obs.err = nil) =>
        \A i \in 1..Len(obs.log) :
            (obs.log[i].k = "gl" /\ obs.log[i].f = "TexImage2D") =>
                obs.log[i].a[1] = obs.ret

\* C16: a NewFramebuffer that reached the completeness check returns, when
\* the status is FRAMEBUFFER_COMPLETE, the generated handle and no error;
\* when the status is another non-zero value, the error that embeds the
\* status, without asking glGetError; when the status is 0, the error that
\* embeds glGetError's code if that is not NO_ERROR, and the unknown-error
\* message otherwise.
C16_FramebufferErrorOrder ==
    LET st == GlCalls(obs.log, "CheckFramebufferStatusEXT")
        ge == GlCalls(obs.log, "GetError")
        status == st[1].a[1]
    IN (obs.op = "NewFramebuffer" /\ st # <<>>) =>
         CASE status = FRAMEBUFFER_COMPLETE ->
                /\ obs.err = nil /\ ge = <<>>
                /\ obs.ret = Generated(obs.log, "GenFramebuffersEXT")
           [] status # FRAMEBUFFER_COMPLETE /\ status # 0 ->
                /\ obs.err = "opengl: creating framebuffer failed: %v"
                /\ obs.code = status /\ ge = <<>> /\ obs.ret = 0
           [] OTHER ->
                /\ Len(ge) = 1 /\ obs.ret = 0
                /\ IF ge[1].a[1] # NO_ERROR
                   THEN /\ obs.err =
                             "opengl: creating framebuffer failed: (glGetError) %d"
                        /\ obs.code = ge[1].a[1]
                   ELSE obs.err =
                            "opengl: creating framebuffer failed: unknown error"

\* the status was 0 and glGetError reported an error, which the error embeds
C16_Witness ==
    /\ obs.op = "NewFramebuffer"
    /\ Issued(obs.log, "CheckFramebufferStatusEXT", <<0>>)
    /\ Issued(obs.log, "GetError", <<INVALID_OPERATION>>)
    /\ obs.code = INVALID_OPERATION
    /\ obs.err = "opengl: creating framebuffer failed: (glGetError) %d"

\* C17: a reset whose gl.Init fails returns the error and leaves every field
\* of the Context and the whole device as they were; the only device call it
\* made is the Init attempt, and it wrote no field.
C17_FailedResetFrame ==
    [][(obs'.op = "reset" /\ obs'.err # nil) =>
         /\ c' = c
         /\ gl' = gl
         /\ obs'.ret = 0
         /\ \A i \in 1..Len(obs'.log) :
               /\ obs'.log[i].k = "gl"
               /\ obs'.log[i].f = "Init"]_vars

\* a reset that attempted gl.Init and returned its error
C17_Witness ==
    /\ obs.op = "reset"
    /\ obs.err = "opengl: initializing error"
    /\ Issued(obs.log, "Init", <<0>>)
    /\ ~c.init

\* C18 (as stated): a newShader whose compilation fails and a newProgram
\* whose link fails return an error and no handle, and the shader or program
\* object the call created is no object of the device afterwards.
C18_FailedCreateCleansUp ==
    LET sh == Generated(obs.log, "CreateShader")
        p == Generated(obs.log, "CreateProgram")
    IN /\ (obs.op = "newShader" /\ obs.err = "opengl: shader compile failed") =>
            /\ obs.ret = 0
            /\ sh \notin gl.shaders
       /\ (obs.op = "newProgram" /\ obs.err = "opengl: program error") =>
            /\ obs.ret = 0
            /\ ~glIsProgram(S, p)

\* C19 (as stated): no DeleteFramebuffer makes the device delete call for
\* the handle recorded as the screen framebuffer.
C19_ScreenFramebufferNeverDeleted ==
    obs.op = "DeleteFramebuffer" =>
        ~Issued(obs.log, "DeleteFramebuffersEXT", <<c.screenFramebuffer>>)

\* C20: when glGetUniformLocation or glGetAttribLocation reports -1 the
\* operation panics: it returns no error, no location is stored for the
\* (program, name) pair, no field is written, and the resolution is the only
\* device call of the operation, so the uniform or attribute call that
\* needed the location is not made.
C20_NotFoundPanics ==
    \A i \in 1..Len(obs.log) :
        (/\ obs.log[i].k = "gl"
         /\ obs.log[i].f \in {"GetUniformLocation", "GetAttribLocation"}
         /\ obs.log[i].a[3] = -1) =>
           LET id == getProgramID(obs.log[i].a[1])
               name == obs.log[i].a[2]
           IN /\ obs.panicked
              /\ obs.err = nil
              /\ IF obs.log[i].f = "GetUniformLocation"
                 THEN c.locationCache.uniform[id][name] = NoLocation
                 ELSE c.locationCache.attrib[id][name] = NoLocation
              /\ ~Written(obs.log, "locationCache")
              /\ \A j \in 1..Len(obs.log) : obs.log[j].k = "gl" => j = i

\* a uniformInt on a linked program that has no uniform of that name
C20_Witness ==
    /\ obs.op = "uniformInt"
    /\ obs.panicked
    /\ glIsProgram(S, obs.args[1])
    /\ gl.programs[obs.args[1]] # Unlinked
    /\ Issued(obs.log, "GetUniformLocation", <<obs.args[1], obs.args[2], -1>>)

====
